---- MODULE Spec2Model ----
(***************************************************************************)
(* The HTTP application of main.py: a route table of eight path operations *)
(* registered in declaration order on one FastAPI instance, and the eight  *)
(* handler functions behind them.                                          *)
(*                                                                         *)
(* A request travels  routing -> solving -> calling -> sending.  Routing   *)
(* and parameter solving are what the decorators and the type annotations  *)
(* of main.py ask the framework (Starlette's router, FastAPI's dependency  *)
(* solver, pydantic v2 in lax mode) to do; they are modelled here from the *)
(* declarations: the path templates, the declared parameter types and      *)
(* defaults, and the Item and ModelName classes.                           *)
(*                                                                         *)
(* Strings are sequences of one-character strings, so that matching,       *)
(* splitting at "/", integer parsing and case sensitivity are computed.    *)
(***************************************************************************)
EXTENDS Integers, Sequences, FiniteSets, TLC

VARIABLES conns, seen

vars == <<conns, seen>>

\* Number of connections served concurrently by the event loop (ConcSpec).
MaxConn == 2

Conns == 1..MaxConn

-----------------------------------------------------------------------------
(* Values.  Python / JSON values carry their type as the record's field.   *)

PyStr(s) == [str |-> s]
PyInt(n) == [int |-> n]
PyFloat(n) == [float |-> n]
PyBool(b) == [bool |-> b]
PyEnum(m) == [enum |-> m]
PyNone == [none |-> TRUE]

IsStr(v) == "str" \in DOMAIN v

\* Mutant: the test `q is not None` in place of `if q`.
Truthy_is_not_none(v) == IsStr(v)

\* Python truthiness of a `str | None` value: None and "" are falsy.
Truthy(v) == IsStr(v) /\ Len(v.str) > 0

EmptyMap == [k \in {} |-> PyNone]

\* dict.update / {**a, **b}: keys of e override those of d.
Update(d, e) == [k \in (DOMAIN d) \cup (DOMAIN e) |-> IF k \in DOMAIN e THEN e[k] ELSE d[k]]

\* JSON values of a request body.
JNull == [jnull |-> TRUE]
JNum(n) == [jnum |-> n]
JStr(s) == [jstr |-> s]

NoBody == [nobody |-> TRUE]

-----------------------------------------------------------------------------
(* Character strings used by the program and by the requests.              *)

Slash == <<"/">>

S_items == <<"i", "t", "e", "m", "s">>
S_users == <<"u", "s", "e", "r", "s">>
S_models == <<"m", "o", "d", "e", "l", "s">>
S_files == <<"f", "i", "l", "e", "s">>
S_me == <<"m", "e">>

S_ALEXNET == <<"A", "L", "E", "X", "N", "E", "T">>
S_RESNET == <<"R", "E", "S", "N", "E", "T">>
S_LENET == <<"L", "E", "N", "E", "T">>

MsgHello == <<"H", "e", "l", "l", "o", " ", "W", "o", "r", "l", "d">>
MsgIAmYou == <<"I", " ", "a", "m", " ", "y", "o", "u", ".">>
MsgAlexnet == <<"D", "e", "e", "p", " ", "L", "e", "a", "r", "n", "i", "n", "g", " ", "F", "T", "W", "!">>
MsgLenet == <<"L", "e", "C", "N", "N", " ", "a", "l", "l", " ", "t", "h", "e", " ", "i", "m", "a", "g", "e", "s">>
MsgResnet == <<"H", "a", "v", "e", " ", "s", "o", "m", "e", " ", "r", "e", "s", "i", "d", "u", "a", "l", "s">>
LongDescription == <<"T", "h", "i", "s", " ", "i", "s", " ", "a", "n", " ", "a", "m", "a", "z", "i", "n", "g", " ",
                     "i", "t", "e", "m", " ", "t", "h", "a", "t", " ", "h", "a", "s", " ", "a", " ",
                     "l", "o", "n", "g", " ", "d", "e", "s", "c", "r", "i", "p", "t", "i", "o", "n">>

StartsWith(s, p) == Len(p) <= Len(s) /\ SubSeq(s, 1, Len(p)) = p

DropFirst(s, n) == SubSeq(s, n + 1, Len(s))

\* Length of the longest prefix of s holding no "/".
RECURSIVE RunLen(_)
RunLen(s) == IF s = <<>> \/ Head(s) = "/" THEN 0 ELSE 1 + RunLen(Tail(s))

\* str.rstrip("/")
RECURSIVE RStripSlash(_)
RStripSlash(s) ==
    IF s # <<>> /\ s[Len(s)] = "/" THEN RStripSlash(SubSeq(s, 1, Len(s) - 1)) ELSE s

-----------------------------------------------------------------------------
(* Conversions of raw strings, as pydantic performs them in lax mode.      *)
(* The request universe below spells integers canonically (an optional     *)
(* sign and decimal digits) and booleans in lower case; spellings with     *)
(* whitespace, underscores or a decimal point are outside it.              *)

DigitVal == ("0" :> 0) @@ ("1" :> 1) @@ ("2" :> 2) @@ ("3" :> 3) @@ ("4" :> 4) @@
            ("5" :> 5) @@ ("6" :> 6) @@ ("7" :> 7) @@ ("8" :> 8) @@ ("9" :> 9)

IsDigits(s) == Len(s) > 0 /\ \A i \in 1..Len(s) : s[i] \in DOMAIN DigitVal

RECURSIVE DigitsValue(_)
DigitsValue(s) ==
    IF s = <<>> THEN 0
    ELSE DigitsValue(SubSeq(s, 1, Len(s) - 1)) * 10 + DigitVal[s[Len(s)]]

ValidInt(s) ==
    \/ IsDigits(s)
    \/ Len(s) > 1 /\ s[1] \in {"+", "-"} /\ IsDigits(Tail(s))

IntOf(s) ==
    IF s[1] = "-" THEN 0 - DigitsValue(Tail(s))
    ELSE IF s[1] = "+" THEN DigitsValue(Tail(s))
    ELSE DigitsValue(s)

TrueStrings == {<<"1">>, <<"t">>, <<"y">>, <<"o", "n">>, <<"y", "e", "s">>, <<"t", "r", "u", "e">>}
FalseStrings == {<<"0">>, <<"f">>, <<"n">>, <<"n", "o">>, <<"o", "f", "f">>, <<"f", "a", "l", "s", "e">>}

Invalid == [ok |-> FALSE, val |-> PyNone]
Valid(v) == [ok |-> TRUE, val |-> v]

\* Mutant: the members valued by their lower-case names.
ModelName_lower_case ==
    [alexnet |-> <<"a", "l", "e", "x", "n", "e", "t">>, resnet |-> <<"r", "e", "s", "n", "e", "t">>,
     lenet |-> <<"l", "e", "n", "e", "t">>]

\* class ModelName(str, Enum): member name -> value.
ModelName == [alexnet |-> S_ALEXNET, resnet |-> S_RESNET, lenet |-> S_LENET]

\* A path or query string against a declared annotation.
ValidateRaw(type, raw) ==
    CASE type = "str" -> Valid(PyStr(raw))
      [] type = "str|None" -> Valid(PyStr(raw))
      [] type = "int" -> IF ValidInt(raw) THEN Valid(PyInt(IntOf(raw))) ELSE Invalid
      [] type = "bool" ->
            IF raw \in TrueStrings THEN Valid(PyBool(TRUE))
            ELSE IF raw \in FalseStrings THEN Valid(PyBool(FALSE))
            ELSE Invalid
      [] type = "ModelName" ->
            IF \E m \in DOMAIN ModelName : ModelName[m] = raw
            THEN Valid(PyEnum(CHOOSE m \in DOMAIN ModelName : ModelName[m] = raw))
            ELSE Invalid

\* A JSON value of the body against a field annotation of Item.
ValidateJson(type, jv) ==
    CASE type = "str" ->
            IF "jstr" \in DOMAIN jv THEN Valid(PyStr(jv.jstr)) ELSE Invalid
      [] type = "str|None" ->
            IF "jnull" \in DOMAIN jv THEN Valid(PyNone)
            ELSE IF "jstr" \in DOMAIN jv THEN Valid(PyStr(jv.jstr))
            ELSE Invalid
      [] type = "float" ->
            IF "jnum" \in DOMAIN jv THEN Valid(PyFloat(jv.jnum))
            ELSE IF "jstr" \in DOMAIN jv /\ ValidInt(jv.jstr) THEN Valid(PyFloat(IntOf(jv.jstr)))
            ELSE Invalid
      [] type = "float|None" ->
            IF "jnull" \in DOMAIN jv THEN Valid(PyNone)
            ELSE IF "jnum" \in DOMAIN jv THEN Valid(PyFloat(jv.jnum))
            ELSE IF "jstr" \in DOMAIN jv /\ ValidInt(jv.jstr) THEN Valid(PyFloat(IntOf(jv.jstr)))
            ELSE Invalid

\* class Item(BaseModel): the declared fields, in order.
Item == <<
    [name |-> "name", type |-> "str", required |-> TRUE, default |-> PyNone],
    [name |-> "description", type |-> "str|None", required |-> FALSE, default |-> PyNone],
    [name |-> "price", type |-> "float", required |-> TRUE, default |-> PyNone],
    [name |-> "tax", type |-> "float|None", required |-> FALSE, default |-> PyNone] >>

ItemFieldNames == {Item[i].name : i \in 1..Len(Item)}

ItemField(n) == Item[CHOOSE i \in 1..Len(Item) : Item[i].name = n]

\* One field of Item out of the body object: missing and required is an error,
\* missing and optional gives the default.  Keys Item does not declare are ignored.
SolveField(f, obj) ==
    IF f.name \in DOMAIN obj THEN ValidateJson(f.type, obj[f.name])
    ELSE IF f.required THEN Invalid
    ELSE Valid(f.default)

\* The value pydantic keeps for an undeclared key it is told to allow.
ExtraValue(jv) ==
    IF "jnum" \in DOMAIN jv THEN PyInt(jv.jnum)
    ELSE IF "jstr" \in DOMAIN jv THEN PyStr(jv.jstr)
    ELSE PyNone

\* Mutant: Item configured with extra="allow", which keeps undeclared keys.
ValidateItem_allow_extra(body) ==
    IF "json" \notin DOMAIN body
    THEN [errs |-> {<<"body">>}, val |-> PyNone]
    ELSE LET res == [n \in ItemFieldNames |-> SolveField(ItemField(n), body.json)]
             extra == (DOMAIN body.json) \ ItemFieldNames
         IN  [errs |-> {<<"body", n>> : n \in {m \in ItemFieldNames : ~res[m].ok}},
              val |-> [item |-> [n \in ItemFieldNames \cup extra |->
                                    IF n \in extra THEN ExtraValue(body.json[n]) ELSE res[n].val]]]

\* The body as an Item: [errs |-> the failing locations, val |-> the instance].
\* The instance holds the declared fields; undeclared keys are dropped.
ValidateItem(body) ==
    IF "json" \notin DOMAIN body
    THEN [errs |-> {<<"body">>}, val |-> PyNone]
    ELSE LET res == [n \in ItemFieldNames |-> SolveField(ItemField(n), body.json)]
         IN  [errs |-> {<<"body", n>> : n \in {m \in ItemFieldNames : ~res[m].ok}},
              val |-> [item |-> [n \in ItemFieldNames |-> res[n].val]]]

\* item.model_dump(): every field the instance holds.
model_dump(item) == [n \in DOMAIN item.item |-> item.item[n]]

-----------------------------------------------------------------------------
(* The route table.  A path template is a sequence of literal chunks and   *)
(* parameters.  Starlette compiles it to an anchored regular expression in *)
(* which {name} matches one non-empty run of characters other than "/" and *)
(* {name:path} matches any remainder, the empty one included.              *)

Lit(chars) == [lit |-> chars]
Param(name, conv) == [param |-> name, conv |-> conv]

NoMatch == [ok |-> FALSE, params |-> EmptyMap]

\* The template against the path: whether it matches in full, and the raw
\* string bound to each parameter.
RECURSIVE MatchFrom(_, _)
MatchFrom(pat, s) ==
    IF pat = <<>>
    THEN IF s = <<>> THEN [ok |-> TRUE, params |-> EmptyMap] ELSE NoMatch
    ELSE LET e == Head(pat) IN
         IF "lit" \in DOMAIN e
         THEN IF StartsWith(s, e.lit)
              THEN MatchFrom(Tail(pat), DropFirst(s, Len(e.lit)))
              ELSE NoMatch
         ELSE IF e.conv = "path"
         THEN IF Tail(pat) = <<>>
              THEN [ok |-> TRUE, params |-> (e.param :> s)]
              ELSE NoMatch
         ELSE LET n == RunLen(s)
                  rest == MatchFrom(Tail(pat), DropFirst(s, n))
              IN  IF n > 0 /\ rest.ok
                  THEN [ok |-> TRUE, params |-> Update(e.param :> SubSeq(s, 1, n), rest.params)]
                  ELSE NoMatch

\* The path operations of main.py, one per decorator.
R_root ==
    [methods |-> {"GET"}, path |-> <<Lit(Slash)>>, endpoint |-> "root"]

R_read_item ==
    [methods |-> {"GET"}, endpoint |-> "read_item",
     path |-> <<Lit(Slash \o S_items \o Slash), Param("item_id", "str")>>]

R_read_user_me ==
    [methods |-> {"GET"}, endpoint |-> "read_user_me",
     path |-> <<Lit(Slash \o S_users \o Slash \o S_me)>>]

R_read_user ==
    [methods |-> {"GET"}, endpoint |-> "read_user",
     path |-> <<Lit(Slash \o S_users \o Slash), Param("user_id", "str")>>]

R_get_model ==
    [methods |-> {"GET"}, endpoint |-> "get_model",
     path |-> <<Lit(Slash \o S_models \o Slash), Param("model_name", "str")>>]

\* Mutant: the template without the :path convertor.
R_read_file_one_segment ==
    [methods |-> {"GET"}, endpoint |-> "read_file",
     path |-> <<Lit(Slash \o S_files \o Slash), Param("file_path", "str")>>]

R_read_file ==
    [methods |-> {"GET"}, endpoint |-> "read_file",
     path |-> <<Lit(Slash \o S_files \o Slash), Param("file_path", "path")>>]

R_read_user_item ==
    [methods |-> {"GET"}, endpoint |-> "read_user_item",
     path |-> <<Lit(Slash \o S_users \o Slash), Param("user_id", "str"),
                Lit(Slash \o S_items \o Slash), Param("item_id", "str")>>]

R_create_item ==
    [methods |-> {"PUT"}, endpoint |-> "create_item",
     path |-> <<Lit(Slash \o S_items \o Slash), Param("item_id", "str")>>]

\* Mutant: /users/{user_id} declared before /users/me.
Routes_user_id_first ==
    <<R_root, R_read_item, R_read_user, R_read_user_me, R_get_model, R_read_file,
      R_read_user_item, R_create_item>>

\* The route table, in the order the decorators run.
Routes ==
    <<R_root, R_read_item, R_read_user_me, R_read_user, R_get_model, R_read_file,
      R_read_user_item, R_create_item>>

\* Route.matches: FULL when path and method match, PARTIAL when only the path does.
RouteMatch(route, method, path) ==
    IF ~MatchFrom(route.path, path).ok THEN "NONE"
    ELSE IF method \in route.methods THEN "FULL"
    ELSE "PARTIAL"

\* Router: the first FULL match in declaration order handles the request; with
\* none, a PARTIAL match answers 405; with none, a path that matches once its
\* trailing slash is toggled answers 307; otherwise 404.
Router(method, path) ==
    LET full == {i \in 1..Len(Routes) : RouteMatch(Routes[i], method, path) = "FULL"}
        partial == {i \in 1..Len(Routes) : RouteMatch(Routes[i], method, path) = "PARTIAL"}
        toggled == IF path[Len(path)] = "/" THEN RStripSlash(path) ELSE path \o Slash
        first == CHOOSE i \in full : \A j \in full : i <= j
    IN  IF full # {}
        THEN [status |-> 200, endpoint |-> Routes[first].endpoint,
              params |-> MatchFrom(Routes[first].path, path).params]
        ELSE IF partial # {}
        THEN [status |-> 405, endpoint |-> "none", params |-> EmptyMap]
        ELSE IF path # Slash /\ \E i \in 1..Len(Routes) : MatchFrom(Routes[i].path, toggled).ok
        THEN [status |-> 307, endpoint |-> "none", params |-> EmptyMap]
        ELSE [status |-> 404, endpoint |-> "none", params |-> EmptyMap]

-----------------------------------------------------------------------------
(* The declared parameters of each handler: a name of the path template is *)
(* a path parameter, another singular type is a query parameter, a         *)
(* pydantic model is the request body.                                     *)

Par(name, loc, type, required, default) ==
    [name |-> name, loc |-> loc, type |-> type, required |-> required, default |-> default]

\* Mutant: the integer path parameters annotated str.
Signature_untyped == [
    root |-> <<>>,
    read_item |-> <<Par("item_id", "path", "str", TRUE, PyNone),
                    Par("q", "query", "str|None", FALSE, PyNone),
                    Par("short", "query", "bool", FALSE, PyBool(FALSE))>>,
    read_user_me |-> <<>>,
    read_user |-> <<Par("user_id", "path", "str", TRUE, PyNone)>>,
    get_model |-> <<Par("model_name", "path", "ModelName", TRUE, PyNone)>>,
    read_file |-> <<Par("file_path", "path", "str", TRUE, PyNone)>>,
    read_user_item |-> <<Par("user_id", "path", "str", TRUE, PyNone),
                         Par("item_id", "path", "str", TRUE, PyNone),
                         Par("q", "query", "str|None", FALSE, PyNone),
                         Par("short", "query", "bool", FALSE, PyBool(FALSE))>>,
    create_item |-> <<Par("item_id", "path", "str", TRUE, PyNone),
                      Par("item", "body", "Item", TRUE, PyNone)>> ]

Signature == [
    root |-> <<>>,
    read_item |-> <<Par("item_id", "path", "str", TRUE, PyNone),
                    Par("q", "query", "str|None", FALSE, PyNone),
                    Par("short", "query", "bool", FALSE, PyBool(FALSE))>>,
    read_user_me |-> <<>>,
    read_user |-> <<Par("user_id", "path", "str", TRUE, PyNone)>>,
    get_model |-> <<Par("model_name", "path", "ModelName", TRUE, PyNone)>>,
    read_file |-> <<Par("file_path", "path", "str", TRUE, PyNone)>>,
    read_user_item |-> <<Par("user_id", "path", "int", TRUE, PyNone),
                         Par("item_id", "path", "str", TRUE, PyNone),
                         Par("q", "query", "str|None", FALSE, PyNone),
                         Par("short", "query", "bool", FALSE, PyBool(FALSE))>>,
    create_item |-> <<Par("item_id", "path", "int", TRUE, PyNone),
                      Par("item", "body", "Item", TRUE, PyNone)>> ]

\* One declared parameter out of the request: [errs, val].
SolveParam(p, req, params) ==
    IF p.loc = "body" THEN ValidateItem(req.body)
    ELSE LET present == IF p.loc = "path" THEN TRUE ELSE p.name \in DOMAIN req.query
             raw == IF p.loc = "path" THEN params[p.name] ELSE req.query[p.name]
             r == IF present THEN ValidateRaw(p.type, raw)
                  ELSE IF p.required THEN Invalid
                  ELSE Valid(p.default)
         IN  [errs |-> IF r.ok THEN {} ELSE {<<p.loc, p.name>>}, val |-> r.val]

\* All declared parameters: the union of the errors, and the argument values.
solve_dependencies(endpoint, req, params) ==
    LET sig == Signature[endpoint]
        res == [i \in 1..Len(sig) |-> SolveParam(sig[i], req, params)]
    IN  [errors |-> UNION {res[i].errs : i \in 1..Len(sig)},
         values |-> [n \in {sig[i].name : i \in 1..Len(sig)} |->
                        res[CHOOSE i \in 1..Len(sig) : sig[i].name = n].val]]

-----------------------------------------------------------------------------
(* The handlers.  A returned dict is a function from its keys.             *)

root == "message" :> PyStr(MsgHello)

\* Mutant: the description added whatever short is.
read_item_always_long(item_id, q, short) ==
    LET item0 == "item_id" :> item_id
        item1 == IF Truthy(q) THEN Update(item0, "q" :> q) ELSE item0
    IN  Update(item1, "description" :> PyStr(LongDescription))

read_item(item_id, q, short) ==
    LET item0 == "item_id" :> item_id
        item1 == IF Truthy(q) THEN Update(item0, "q" :> q) ELSE item0
    IN  IF ~short.bool
        THEN Update(item1, "description" :> PyStr(LongDescription))
        ELSE item1

\* Mutant: a handler that answers from state shared by all requests.
read_user_me_counting == "user_id" :> PyInt(Cardinality(seen))

read_user_me == "user_id" :> PyStr(MsgIAmYou)

read_user(user_id) == "user_id" :> user_id

\* Mutant: the value comparison made against resnet instead of lenet.
get_model_resnet_compared(model_name) ==
    IF model_name = PyEnum("alexnet")
    THEN ("model_name" :> model_name) @@ ("message" :> PyStr(MsgAlexnet))
    ELSE IF ModelName[model_name.enum] = ModelName["resnet"]
    THEN ("model_name" :> model_name) @@ ("message" :> PyStr(MsgLenet))
    ELSE ("model_name" :> model_name) @@ ("message" :> PyStr(MsgResnet))

get_model(model_name) ==
    IF model_name = PyEnum("alexnet")
    THEN ("model_name" :> model_name) @@ ("message" :> PyStr(MsgAlexnet))
    ELSE IF ModelName[model_name.enum] = ModelName["lenet"]
    THEN ("model_name" :> model_name) @@ ("message" :> PyStr(MsgLenet))
    ELSE ("model_name" :> model_name) @@ ("message" :> PyStr(MsgResnet))

read_file(file_path) == "file_path" :> file_path

\* Mutant: the q branch left out.
read_user_item_without_q(user_id, item_id, q, short) ==
    LET item0 == ("item_id" :> item_id) @@ ("owner_id" :> user_id)
    IN  IF ~short.bool
        THEN Update(item0, "description" :> PyStr(LongDescription))
        ELSE item0

read_user_item(user_id, item_id, q, short) ==
    LET item0 == ("item_id" :> item_id) @@ ("owner_id" :> user_id)
        item1 == IF Truthy(q) THEN Update(item0, "q" :> q) ELSE item0
    IN  IF ~short.bool
        THEN Update(item1, "description" :> PyStr(LongDescription))
        ELSE item1

create_item(item_id, item) == Update("item_id" :> item_id, model_dump(item))

\* The handler of the matched route, called with the solved arguments.
run_endpoint_function(endpoint, v) ==
    CASE endpoint = "root" -> root
      [] endpoint = "read_item" -> read_item(v["item_id"], v["q"], v["short"])
      [] endpoint = "read_user_me" -> read_user_me
      [] endpoint = "read_user" -> read_user(v["user_id"])
      [] endpoint = "get_model" -> get_model(v["model_name"])
      [] endpoint = "read_file" -> read_file(v["file_path"])
      [] endpoint = "read_user_item" ->
            read_user_item(v["user_id"], v["item_id"], v["q"], v["short"])
      [] endpoint = "create_item" -> create_item(v["item_id"], v["item"])

\* The returned dict as JSON: an enum member becomes its value.
jsonable_encoder(d) ==
    [k \in DOMAIN d |-> IF "enum" \in DOMAIN d[k] THEN PyStr(ModelName[d[k].enum]) ELSE d[k]]

-----------------------------------------------------------------------------
(* The requests the model draws from.                                      *)

Absent == [absent |-> TRUE]

Given(v) == [given |-> v]

\* The keys whose option is not Absent, with their JSON values.
Present(all) == [k \in {j \in DOMAIN all : all[j] # Absent} |-> all[k]]

\* The keys whose option is not Absent, with the strings given for them.
PresentRaw(all) == [k \in {j \in DOMAIN all : all[j] # Absent} |-> all[k].given]

Request(method, path, query, body) ==
    [method |-> method, path |-> path, query |-> query, body |-> body]

S_42 == <<"4", "2">>
S_7 == <<"7">>
S_ab == <<"a", "b">>
S_x == <<"x">>
S_other == <<"o", "t", "h", "e", "r">>
S_alexnet == <<"a", "l", "e", "x", "n", "e", "t">>

Heads == {S_items, S_users, S_models, S_files, S_other}

\* Path segments: integers, words, the three model names, a lower-case
\* spelling of one, a route word, and the empty segment of a trailing slash.
Segs == {S_42, S_7, <<"-", "3">>, <<"4", ".", "5">>, S_me, S_ab, S_items,
         S_ALEXNET, S_RESNET, S_LENET, S_alexnet, <<>>}

FileSegs == {S_42, S_me, S_users, <<>>}

GetPaths ==
    {Slash}
    \cup {Slash \o h : h \in Heads}
    \cup {Slash \o h \o Slash \o s : h \in Heads, s \in Segs}
    \cup {Slash \o S_users \o Slash \o s \o Slash \o S_items \o Slash \o t : s \in Segs, t \in Segs}
    \cup {Slash \o S_files \o Slash \o s \o Slash \o t : s \in FileSegs, t \in FileSegs}
    \cup {Slash \o S_files \o Slash \o s \o Slash \o t \o Slash \o u :
            s \in FileSegs, t \in FileSegs, u \in FileSegs}

Queries ==
    {PresentRaw([q |-> q, short |-> sh]) :
        q \in {Absent, Given(<<>>), Given(S_x)},
        sh \in {Absent} \cup {Given(v) : v \in {<<"t", "r", "u", "e">>, <<"1">>, <<"0">>,
                                                <<"n", "o">>, S_ab, <<>>}}}

Bodies ==
    {NoBody} \cup
    {[json |-> Present([name |-> n, description |-> d, price |-> p, tax |-> t, item_id |-> x])] :
        n \in {Absent, JStr(S_ab), JNum(5)},
        d \in {Absent, JNull, JStr(S_x), JNum(5)},
        p \in {Absent, JNum(3), JStr(S_7), JStr(S_ab)},
        t \in {Absent, JNull, JNum(1), JStr(S_ab)},
        x \in {Absent, JNum(9)}}

PutPaths ==
    {Slash \o S_items \o Slash \o s : s \in Segs}
    \cup {Slash, Slash \o S_users \o Slash \o S_me, Slash \o S_other}

Requests ==
    {Request("GET", p, q, NoBody) : p \in GetPaths, q \in Queries}
    \cup {Request("PUT", p, EmptyMap, b) : p \in PutPaths, b \in Bodies}

\* The requests of the concurrent specification: one per kind of outcome.
ConcRequests == {
    Request("GET", Slash \o S_users \o Slash \o S_me, EmptyMap, NoBody),
    Request("GET", Slash \o S_users \o Slash \o S_42, EmptyMap, NoBody),
    Request("GET", Slash \o S_items \o Slash \o S_42, PresentRaw([q |-> Given(S_x), short |-> Absent]), NoBody),
    Request("GET", Slash \o S_users \o Slash \o S_ab \o Slash \o S_items \o Slash \o S_7,
            EmptyMap, NoBody),
    Request("PUT", Slash \o S_items \o Slash \o S_42, EmptyMap,
            [json |-> Present([name |-> JStr(S_ab), description |-> Absent, price |-> JNum(3),
                               tax |-> Absent, item_id |-> JNum(9)])]) }

-----------------------------------------------------------------------------
(* The server.  Each connection carries one request through the stages;    *)
(* `seen` is the history of (request, response) pairs that left the server.*)

Nil == [nil |-> TRUE]

Idle == [pc |-> "idle", req |-> Nil, endpoint |-> "none", params |-> EmptyMap,
         values |-> EmptyMap, called |-> "none", resp |-> Nil]

Response(status, content) == [status |-> status, content |-> content]

Init ==
    /\ conns = [c \in Conns |-> Idle]
    /\ seen = {}

\* A request of the universe R arrives on an idle connection.
Receive(c, R) ==
    /\ conns[c].pc = "idle"
    /\ \E r \in R : conns' = [conns EXCEPT ![c] = [Idle EXCEPT !.pc = "routing", !.req = r]]
    /\ UNCHANGED seen

\* The router picks the route, or answers 405, 307 or 404 itself.
Route(c) ==
    /\ conns[c].pc = "routing"
    /\ LET m == Router(conns[c].req.method, conns[c].req.path) IN
       conns' = [conns EXCEPT ![c] =
                    IF m.endpoint # "none"
                    THEN [@ EXCEPT !.pc = "solving", !.endpoint = m.endpoint, !.params = m.params]
                    ELSE [@ EXCEPT !.pc = "sending", !.resp = Response(m.status, Nil)]]
    /\ UNCHANGED seen

\* The declared parameters are validated; any error answers 422.
Solve(c) ==
    /\ conns[c].pc = "solving"
    /\ LET s == solve_dependencies(conns[c].endpoint, conns[c].req, conns[c].params) IN
       conns' = [conns EXCEPT ![c] =
                    IF s.errors = {}
                    THEN [@ EXCEPT !.pc = "calling", !.values = s.values]
                    ELSE [@ EXCEPT !.pc = "sending",
                                   !.resp = Response(422, "detail" :> s.errors)]]
    /\ UNCHANGED seen

\* The handler runs (it holds no await, so it runs in one step) and its
\* result is encoded as the 200 response.
Call(c) ==
    /\ conns[c].pc = "calling"
    /\ conns' = [conns EXCEPT ![c] =
                    [@ EXCEPT !.pc = "sending", !.called = conns[c].endpoint,
                              !.resp = Response(200, jsonable_encoder(
                                  run_endpoint_function(conns[c].endpoint, conns[c].values)))]]
    /\ UNCHANGED seen

\* The response leaves and the connection is idle again.
Send(c) ==
    /\ conns[c].pc = "sending"
    /\ conns' = [conns EXCEPT ![c] = Idle]
    /\ UNCHANGED seen

\* The same, with the exchange recorded in the history.
SendObserved(c) ==
    /\ conns[c].pc = "sending"
    /\ conns' = [conns EXCEPT ![c] = Idle]
    /\ seen' = seen \cup {[req |-> conns[c].req, resp |-> conns[c].resp]}

\* One connection, every request of the universe.
Next ==
    \/ Receive(1, Requests)
    \/ Route(1)
    \/ Solve(1)
    \/ Call(1)
    \/ Send(1)

Spec == Init /\ [][Next]_vars

\* All connections interleaved on the event loop, with the history kept.
ConcNext ==
    \E c \in Conns :
        \/ Receive(c, ConcRequests)
        \/ Route(c)
        \/ Solve(c)
        \/ Call(c)
        \/ SendObserved(c)

ConcSpec == Init /\ [][ConcNext]_vars

-----------------------------------------------------------------------------
(* Vocabulary of the properties.  Paths are taken apart here by plain      *)
(* string equality against the universe, not by the router's own matching. *)

ItemsPrefix == Slash \o S_items \o Slash
UsersPrefix == Slash \o S_users \o Slash
ModelsPrefix == Slash \o S_models \o Slash
FilesPrefix == Slash \o S_files \o Slash

IsSegment(s) == Len(s) > 0 /\ \A i \in 1..Len(s) : s[i] # "/"

IntegerSegs == {S_42, S_7, <<"-", "3">>}
IntegerOf(s) == IF s = S_42 THEN 42 ELSE IF s = S_7 THEN 7 ELSE 0 - 3

ModelSegs == {S_ALEXNET, S_RESNET, S_LENET}
MessageOf(s) == IF s = S_ALEXNET THEN MsgAlexnet ELSE IF s = S_LENET THEN MsgLenet ELSE MsgResnet

Answered(c) == conns[c].pc = "sending"
Content(c) == conns[c].resp.content
Method(c) == conns[c].req.method
Path(c) == conns[c].req.path
Query(c) == conns[c].req.query

Has(f, k) == k \in DOMAIN f

\* The whole exchange as a function of the request alone.
App(req) ==
    LET m == Router(req.method, req.path)
        s == solve_dependencies(m.endpoint, req, m.params)
    IN  IF m.endpoint = "none" THEN Response(m.status, Nil)
        ELSE IF s.errors # {} THEN Response(422, "detail" :> s.errors)
        ELSE Response(200, jsonable_encoder(run_endpoint_function(m.endpoint, s.values)))

Without(f, k) == [j \in (DOMAIN f) \ {k} |-> f[j]]

-----------------------------------------------------------------------------
\* C1: every GET /items/{item_id} is routed to read_item, whose response
\* holds item_id as the path segment kept as a string, q with the supplied
\* value when q is non-empty, the description exactly when short is false
\* (the default), and no other key; GET /items/42?q=x answers exactly
\* item_id "42", q "x" and the description.
C1_ReadItemResponse ==
    \A c \in Conns : \A s \in Segs :
        (Answered(c) /\ Method(c) = "GET" /\ IsSegment(s) /\ Path(c) = ItemsPrefix \o s) =>
            /\ conns[c].endpoint = "read_item"
            /\ conns[c].called = "read_item" =>
                /\ conns[c].resp.status = 200
                /\ Content(c)["item_id"] = PyStr(s)
                /\ DOMAIN Content(c) \subseteq {"item_id", "q", "description"}
                /\ (Has(Query(c), "q") /\ Len(Query(c)["q"]) > 0) =>
                        (Has(Content(c), "q") /\ Content(c)["q"] = PyStr(Query(c)["q"]))
                /\ Has(Content(c), "description") <=> (conns[c].values["short"] = PyBool(FALSE))
                /\ Has(Content(c), "description") =>
                        Content(c)["description"] = PyStr(LongDescription)
                /\ ~Has(Query(c), "short") => Has(Content(c), "description")
            /\ (s = S_42 /\ DOMAIN Query(c) = {"q"} /\ Query(c)["q"] = S_x) =>
                    conns[c].resp = Response(200, [item_id |-> PyStr(S_42), q |-> PyStr(S_x),
                                                   description |-> PyStr(LongDescription)])

C1_Witness ==
    \E c \in Conns :
        /\ Answered(c) /\ conns[c].called = "read_item"
        /\ Path(c) = ItemsPrefix \o S_42
        /\ DOMAIN Query(c) = {"q"} /\ Query(c)["q"] = S_x

\* C2: GET /users/me is always answered by read_user_me with "I am you.",
\* never by read_user with user_id bound to "me"; every other single-segment
\* GET /users/{user_id} is answered by read_user, echoing the segment as a string.
C2_UsersMeFirst ==
    \A c \in Conns :
        (Answered(c) /\ Method(c) = "GET") =>
            /\ Path(c) = UsersPrefix \o S_me =>
                    /\ conns[c].called = "read_user_me"
                    /\ conns[c].resp = Response(200, "user_id" :> PyStr(MsgIAmYou))
            /\ \A s \in Segs :
                    (IsSegment(s) /\ s # S_me /\ Path(c) = UsersPrefix \o s) =>
                        /\ conns[c].called = "read_user"
                        /\ conns[c].resp = Response(200, "user_id" :> PyStr(s))

C2_Witness ==
    \E c \in Conns :
        /\ Answered(c) /\ Method(c) = "GET"
        /\ Path(c) = UsersPrefix \o S_me
        /\ conns[c].called = "read_user_me"

\* C3: get_model is invoked only when the segment of GET /models/{model_name}
\* is exactly ALEXNET, RESNET or LENET; any other segment, lower-case
\* spellings included, ends in the framework's validation error and carries
\* none of the handler's messages.
C3_ModelNameValidated ==
    \A c \in Conns :
        Answered(c) =>
            /\ conns[c].called = "get_model" =>
                    (Method(c) = "GET" /\ \E s \in ModelSegs : Path(c) = ModelsPrefix \o s)
            /\ \A s \in Segs \ ModelSegs :
                    (Method(c) = "GET" /\ IsSegment(s) /\ Path(c) = ModelsPrefix \o s) =>
                        /\ conns[c].called = "none"
                        /\ conns[c].resp.status = 422
                        /\ DOMAIN Content(c) = {"detail"}
                        /\ Content(c)["detail"] = {<<"path", "model_name">>}

C3_Witness ==
    \E c \in Conns :
        /\ Answered(c) /\ Method(c) = "GET"
        /\ Path(c) = ModelsPrefix \o S_alexnet
        /\ conns[c].resp.status = 422

NonNumeric(jv) == Has(jv, "jstr") /\ jv.jstr = S_ab

BadItemBody(body) ==
    \/ ~Has(body, "json")
    \/ ~Has(body.json, "name")
    \/ ~Has(body.json, "price")
    \/ NonNumeric(body.json["price"])
    \/ Has(body.json, "tax") /\ NonNumeric(body.json["tax"])

\* C4: a request whose parameters fail coercion or required-field validation
\* never reaches its handler and gets the framework's error response: a
\* non-integer user_id on GET /users/{user_id}/items/{item_id}, a non-integer
\* item_id on PUT /items/{item_id}, a PUT body lacking name or price or with a
\* non-numeric price or tax; a 200 is produced only when every declared
\* parameter validates.
C4_InvalidNeverReachesHandler ==
    \A c \in Conns :
        Answered(c) =>
            /\ \A s \in Segs \ IntegerSegs : \A t \in Segs :
                    (Method(c) = "GET" /\ IsSegment(s) /\ IsSegment(t)
                     /\ Path(c) = UsersPrefix \o s \o ItemsPrefix \o t) =>
                        (conns[c].resp.status = 422 /\ conns[c].called = "none")
            /\ \A s \in Segs \ IntegerSegs :
                    (Method(c) = "PUT" /\ IsSegment(s) /\ Path(c) = ItemsPrefix \o s) =>
                        (conns[c].resp.status = 422 /\ conns[c].called = "none")
            /\ \A s \in Segs :
                    (Method(c) = "PUT" /\ IsSegment(s) /\ Path(c) = ItemsPrefix \o s
                     /\ BadItemBody(conns[c].req.body)) =>
                        (conns[c].resp.status = 422 /\ conns[c].called = "none")
            /\ conns[c].resp.status = 200 =>
                    /\ conns[c].called # "none"
                    /\ conns[c].called = conns[c].endpoint
                    /\ solve_dependencies(conns[c].endpoint, conns[c].req, conns[c].params).errors = {}

C4_Witness ==
    \E c \in Conns :
        /\ Answered(c) /\ Method(c) = "PUT"
        /\ Path(c) = ItemsPrefix \o S_ab
        /\ Has(conns[c].req.body, "json") /\ ~BadItemBody(conns[c].req.body)
        /\ conns[c].resp.status = 422

\* C6: for every valid PUT /items/{item_id}, create_item returns exactly the
\* keys item_id, name, description, price and tax: item_id is the integer of
\* the path, the others are the validated body fields, description and tax
\* null when the body omits them; an item_id key in the body never overrides
\* the path's.
C6_CreateItemResponse ==
    \A c \in Conns :
        (Answered(c) /\ conns[c].called = "create_item") =>
            LET j == conns[c].req.body.json IN
            /\ Method(c) = "PUT"
            /\ \E s \in IntegerSegs :
                    /\ Path(c) = ItemsPrefix \o s
                    /\ Content(c)["item_id"] = PyInt(IntegerOf(s))
            /\ conns[c].resp.status = 200
            /\ DOMAIN Content(c) = {"item_id", "name", "description", "price", "tax"}
            /\ Content(c)["name"] = PyStr(j["name"].jstr)
            /\ Content(c)["description"] =
                    IF Has(j, "description") /\ Has(j["description"], "jstr")
                    THEN PyStr(j["description"].jstr) ELSE PyNone
            /\ Content(c)["price"] =
                    IF Has(j["price"], "jnum") THEN PyFloat(j["price"].jnum) ELSE PyFloat(7)
            /\ Content(c)["tax"] =
                    IF Has(j, "tax") /\ Has(j["tax"], "jnum")
                    THEN PyFloat(j["tax"].jnum) ELSE PyNone

C6_Witness ==
    \E c \in Conns :
        /\ Answered(c) /\ conns[c].called = "create_item"
        /\ Has(conns[c].req.body.json, "item_id")
        /\ ~Has(conns[c].req.body.json, "description")
        /\ ~Has(conns[c].req.body.json, "tax")
        /\ Has(conns[c].req.body.json["price"], "jstr")

\* C7: GET /files/{file_path:path} binds file_path to the whole remainder of
\* the path after /files/, slashes included, and read_file returns it
\* unchanged; a multi-segment remainder is neither unmatched nor taken by
\* another route.
C7_FilePathRemainder ==
    \A c \in Conns :
        (Answered(c) /\ Method(c) = "GET" /\ Len(Path(c)) >= Len(FilesPrefix)
         /\ SubSeq(Path(c), 1, Len(FilesPrefix)) = FilesPrefix) =>
            /\ conns[c].called = "read_file"
            /\ conns[c].resp =
                    Response(200, "file_path" :>
                        PyStr(SubSeq(Path(c), Len(FilesPrefix) + 1, Len(Path(c)))))
            /\ FilesPrefix \o Content(c)["file_path"].str = Path(c)

C7_Witness ==
    \E c \in Conns :
        /\ Answered(c) /\ Method(c) = "GET"
        /\ Path(c) = FilesPrefix \o S_users \o Slash \o S_me
        /\ conns[c].called = "read_file"

\* C8: for each of the three valid names get_model returns model_name equal
\* to the requested value and the one message of that value: ALEXNET "Deep
\* Learning FTW!", LENET "LeCNN all the images", RESNET "Have some residuals".
C8_ModelMessage ==
    \A c \in Conns :
        (Answered(c) /\ conns[c].called = "get_model") =>
            \E s \in ModelSegs :
                /\ Path(c) = ModelsPrefix \o s
                /\ conns[c].resp = Response(200, [model_name |-> PyStr(s),
                                                  message |-> PyStr(MessageOf(s))])

C8_Witness ==
    \E c \in Conns :
        /\ Answered(c) /\ conns[c].called = "get_model"
        /\ Path(c) = ModelsPrefix \o S_LENET

\* C9: GET /users/{user_id}/items/{item_id} is always routed to
\* read_user_item, and for a valid request its response is the response
\* GET /items/{item_id} gives for the same item_id, q and short, plus exactly
\* the key owner_id holding user_id as an integer.
C9_UserItemExtendsItem ==
    \A c \in Conns : \A s \in Segs : \A t \in Segs :
        (Answered(c) /\ Method(c) = "GET" /\ IsSegment(s) /\ IsSegment(t)
         /\ Path(c) = UsersPrefix \o s \o ItemsPrefix \o t) =>
            LET item == App(Request("GET", ItemsPrefix \o t, Query(c), NoBody)) IN
            /\ conns[c].endpoint = "read_user_item"
            /\ conns[c].called \in {"none", "read_user_item"}
            /\ conns[c].called = "read_user_item" =>
                /\ s \in IntegerSegs
                /\ item.status = 200
                /\ ~Has(item.content, "owner_id")
                /\ conns[c].resp =
                        Response(200, Update(item.content, "owner_id" :> PyInt(IntegerOf(s))))

C9_Witness ==
    \E c \in Conns :
        /\ Answered(c) /\ conns[c].called = "read_user_item"
        /\ Has(Query(c), "q") /\ Query(c)["q"] = S_x
        /\ Has(Query(c), "short") /\ Query(c)["short"] = <<"1">>

\* C10: in read_item and read_user_item the response holds "q" if and only
\* if q was supplied non-empty; an empty q gives the response of no q at
\* all, so "q" never appears empty or null.
C10_QOnlyWhenNonEmpty ==
    \A c \in Conns :
        (Answered(c) /\ conns[c].called \in {"read_item", "read_user_item"}) =>
            /\ Has(Content(c), "q") <=> (Has(Query(c), "q") /\ Query(c)["q"] # <<>>)
            /\ Has(Content(c), "q") =>
                    (IsStr(Content(c)["q"]) /\ Len(Content(c)["q"].str) > 0)
            /\ (Has(Query(c), "q") /\ Query(c)["q"] = <<>>) =>
                    conns[c].resp = App([conns[c].req EXCEPT !.query = Without(@, "q")])

C10_Witness ==
    \E c \in Conns :
        /\ Answered(c) /\ conns[c].called = "read_user_item"
        /\ Has(Query(c), "q") /\ Query(c)["q"] = <<>>

-----------------------------------------------------------------------------
\* Every exchange observed so far: those that left, and those about to.
Exchanges ==
    seen \cup {[req |-> conns[c].req, resp |-> conns[c].resp] : c \in {d \in Conns : Answered(d)}}

====
